---- MODULE Spec2Model ----
(***************************************************************************)
(* Model of the store engine of SafeStorage (src/src/core/store.ts), with  *)
(* the default serializer (src/src/core/serializer.ts) and the debounce /  *)
(* throttle wrappers (src/src/core/debounce.ts).                           *)
(*                                                                         *)
(* One store instance over one storage key.  Every public operation, the  *)
(* timer callbacks of the wrappers and the handler of storage events are   *)
(* synchronous and run to completion, so each is one action.  The          *)
(* caller-supplied collaborators (schema, migrate, onValidationError) are  *)
(* drawn from small tables of behaviours; the schemas of the tables are    *)
(* checkers: they hand accepted data back unchanged.                       *)
(***************************************************************************)
EXTENDS Integers, Sequences, FiniteSets, TLC

(* ------------------------------ bounds -------------------------------- *)

\* The clock (Date.now()) runs over 0..MaxTime.
MaxTime == 3

\* Number of distinct subscriber callbacks.
MaxCallbacks == 1

(* ------------------------------ values -------------------------------- *)

\* JavaScript null and undefined as application values.
NULL == "null"

UNDEF == "undefined"

\* "a" and "b" satisfy every schema; "x" and "y" are old-format data that
\* no schema accepts.
Atoms == {"a", "b", "x", "y"}

JsValues == Atoms \cup {NULL, UNDEF}

\* A numeric property that is absent (reads as undefined).
NoNum == -1

\* A numeric property that is present and holds undefined; in stored text,
\* the tag object {"__type":"undefined"} the replacer writes for it.
UndefTag == -2

\* The same tag object, and an absent property, in the place of the value.
UndefTagS == "{__type:undefined}"

MissingS == "<missing>"

\* The only key of the model: options.key.
key == "k"

\* options.ttl and options.debounce / options.throttle, when configured.
TtlMs == 2

DelayMs == 2

\* options.version, when configured.
CurVersion == 2

(* --------------------------- configuration ---------------------------- *)

SchemaKinds == {"safe", "parseOnly"}

\* StoreOptions: schema, version, migrate, ttl, defaultValue,
\* onValidationError ("none", a callback that returns, one that throws),
\* and the rate limiter (debounce and throttle; debounce wins when both).
StoreOptions ==
  [ schema : SchemaKinds,
    version : {NoNum, CurVersion},
    migrate : BOOLEAN,
    ttl : {0, TtlMs},
    defaultValue : {UNDEF, "b"},
    onValidationError : {"none", "returns", "throws"},
    rate : {"none", "debounce", "throttle"} ]

\* schema.safeParse exists ("safe", in the style of Zod); "parseOnly" is a
\* hand-written validator with parse alone.
HasSafeParse(schema) == schema = "safe"

\* The set of data a schema accepts: "parseOnly" also lets null through.
Accepts(schema) ==
  IF schema = "parseOnly" THEN {"a", "b", NULL} ELSE {"a", "b"}

\* schema.safeParse(data): {success, data, error}.
safeParse(schema, data) ==
  IF data \in Accepts(schema)
    THEN [success |-> TRUE, data |-> data, error |-> UNDEF]
    ELSE [success |-> FALSE, data |-> UNDEF, error |-> "ValidationError"]

\* schema.parse(data): returns the data or throws.
parse(schema, data) ==
  IF data \in Accepts(schema)
    THEN [threw |-> FALSE, ret |-> data, err |-> UNDEF]
    ELSE [threw |-> TRUE, ret |-> UNDEF, err |-> "ValidationError"]

\* options.migrate(oldData): the migration function of the model.  It maps
\* old-format "x" to "a" and "a" to "b", leaves "y" as it is (still
\* invalid), returns null for undefined, and throws for "b" and null.
migrate(oldData) ==
  CASE oldData = "x" -> [threw |-> FALSE, ret |-> "a", err |-> UNDEF]
    [] oldData = "a" -> [threw |-> FALSE, ret |-> "b", err |-> UNDEF]
    [] oldData = "y" -> [threw |-> FALSE, ret |-> "y", err |-> UNDEF]
    [] oldData = UNDEF -> [threw |-> FALSE, ret |-> NULL, err |-> UNDEF]
    [] OTHER -> [threw |-> TRUE, ret |-> UNDEF, err |-> "MigrationError"]

\* defaultValue ?? null
DefaultOrNull(cfg) == IF cfg.defaultValue = UNDEF THEN NULL ELSE cfg.defaultValue

(* ----------------------------- serializer ----------------------------- *)

\* The text stored under the key (storage.getItem(key)): no entry, the empty
\* string, text that is not JSON, the JSON text null, or a JSON object with
\* the properties of a StoredData, wrapped in {"__root": ...} or bare.
RawText(t, wrapped, value, version, timestamp, expiresAt) ==
  [t |-> t, wrapped |-> wrapped, value |-> value, version |-> version,
   timestamp |-> timestamp, expiresAt |-> expiresAt]

AbsentRaw == RawText("absent", FALSE, MissingS, NoNum, NoNum, NoNum)

EmptyRaw == RawText("empty", FALSE, MissingS, NoNum, NoNum, NoNum)

GarbageRaw == RawText("garbage", FALSE, MissingS, NoNum, NoNum, NoNum)

NullRaw == RawText("null", FALSE, MissingS, NoNum, NoNum, NoNum)

\* A deserialized StoredData (or the value null).
StoredData(t, value, version, timestamp, expiresAt) ==
  [t |-> t, value |-> value, version |-> version, timestamp |-> timestamp,
   expiresAt |-> expiresAt]

\* replacer: a property holding undefined becomes the tag object; an absent
\* property is not written; everything else is written as it is.
replacer(value) == IF value = UNDEF THEN UndefTagS ELSE value

\* reviver: the tag object becomes undefined (JSON.parse then drops the
\* property); other values are kept.
reviver(value) == IF value \in {UndefTagS, MissingS} THEN UNDEF ELSE value

reviverNum(n) == IF n = UndefTag THEN NoNum ELSE n

\* defaultSerializer.serialize: wraps the data in {__root: data}.
serialize(data) ==
  RawText("obj", TRUE, replacer(data.value), data.version, data.timestamp,
          data.expiresAt)

\* defaultSerializer.deserialize: JSON.parse with the reviver, then unwraps
\* __root when present; throws on text that is not JSON.
deserialize(raw) ==
  CASE raw.t \in {"garbage", "empty", "absent"} ->
         [threw |-> TRUE, err |-> "Failed to deserialize data",
          ret |-> StoredData("null", UNDEF, NoNum, NoNum, NoNum)]
    [] raw.t = "null" ->
         [threw |-> FALSE, err |-> UNDEF,
          ret |-> StoredData("null", UNDEF, NoNum, NoNum, NoNum)]
    [] OTHER ->
         [threw |-> FALSE, err |-> UNDEF,
          ret |-> StoredData("obj", reviver(raw.value), reviverNum(raw.version),
                             reviverNum(raw.timestamp), reviverNum(raw.expiresAt))]

(* ------------------------------- state -------------------------------- *)

VARIABLES
  options,          \* the StoreOptions the store was created with
  now,              \* Date.now()
  storage,          \* storage.getItem(key), as a RawText
  updateCallbacks,  \* the subscriber set, in insertion order
  timers,           \* the pending setTimeout timers of the wrapper
  timeoutId,        \* debounce / throttle: timeoutId (NoNum for null)
  lastArgs,         \* debounce / throttle: lastArgs (UNDEF for null)
  isThrottled,      \* throttle: isThrottled
  listeners,        \* registrations of handleStorageEvent on window
  op,               \* the last operation: its name, result and call log
  written,          \* history: the caller's last write still in place
  burst,            \* history: the caller's set calls under a rate limiter
  unsubscribers     \* history: the unsubscribe functions the caller holds

vars ==
  <<options, now, storage, updateCallbacks, timers, timeoutId, lastArgs,
    isThrottled, listeners, op, written, burst, unsubscribers>>

\* The mutable state an operation works on, with the log of the calls it
\* makes to the caller-supplied functions and to the storage backend.
Machine ==
  [storage |-> storage, timers |-> timers, timeoutId |-> timeoutId,
   lastArgs |-> lastArgs, isThrottled |-> isThrottled, log |-> <<>>]

Event(e, a, k, cb) == [e |-> e, a |-> a, k |-> k, cb |-> cb]

Emit(m, ev) == [m EXCEPT !.log = Append(@, ev)]

\* How a function ends: it returns ret, or throws err.
Return(m, ret) == [m |-> m, threw |-> FALSE, ret |-> ret, err |-> UNDEF]

Throw(m, err) == [m |-> m, threw |-> TRUE, ret |-> UNDEF, err |-> err]

\* onValidationError(error, key), when configured: the callback returns or
\* throws, as configured.
onValidationError(m, error) ==
  IF options.onValidationError = "throws"
    THEN Throw(Emit(m, Event("onValidationError", error, key, 0)), "CallbackError")
    ELSE Return(Emit(m, Event("onValidationError", error, key, 0)), UNDEF)

(* ------------------------------ validate ------------------------------ *)

\* A catch clause that has called the error callback: the callback's own
\* exception propagates, otherwise the function returns null.
ReturnNull(c) == IF c.threw THEN Throw(c.m, c.err) ELSE Return(c.m, NULL)

\* validate, safeParse branch, after the first call of the error callback:
\* that call is inside the try block, so when it throws the catch clause
\* calls the callback again.
validateRetry(c) ==
  IF ~c.threw THEN Return(c.m, NULL)
              ELSE ReturnNull(onValidationError(c.m, c.err))

\* validate, safeParse branch: the result is no success (or carries no data).
validateRejected(m, error) ==
  IF options.onValidationError = "none"
    THEN Return(m, NULL)
    ELSE validateRetry(onValidationError(m, error))

\* validate, catch clause: schema.parse threw.
validateCaught(m, error) ==
  IF options.onValidationError = "none"
    THEN Return(m, NULL)
    ELSE ReturnNull(onValidationError(m, error))

\* validate, with the call of the schema logged.
validateSchema(m, data) ==
  IF HasSafeParse(options.schema)
    THEN IF /\ safeParse(options.schema, data).success
            /\ safeParse(options.schema, data).data # UNDEF
           THEN Return(m, safeParse(options.schema, data).data)
           ELSE validateRejected(m, safeParse(options.schema, data).error)
    ELSE IF ~parse(options.schema, data).threw
           THEN Return(m, parse(options.schema, data).ret)
           ELSE validateCaught(m, parse(options.schema, data).err)

\* validate(data): T | null
validate(m, data) == validateSchema(Emit(m, Event("schema", data, "", 0)), data)

(* ----------------------------- isExpired ------------------------------ *)

\* Mutant of isExpired: expired already at the instant expiresAt.
isExpiredInclusive(storedData) ==
  IF storedData.expiresAt <= 0 THEN FALSE ELSE now >= storedData.expiresAt

\* isExpired(storedData): a missing or zero expiresAt never expires.
isExpired(storedData) ==
  IF storedData.expiresAt <= 0 THEN FALSE ELSE now > storedData.expiresAt

(* ---------------------------- migrateData ----------------------------- *)

\* migrateData, "Run migration": r is how migrate(storedData.value) ended.
migrateRun(m, r) ==
  IF ~r.threw
    THEN Return(m, r.ret)
    ELSE IF options.onValidationError = "none"
           THEN Return(m, NULL)
           ELSE ReturnNull(onValidationError(m, r.err))

\* Mutant of migrateData: the check for an equal version is missing.
migrateDataAlways(m, storedData) ==
  IF options.version = NoNum \/ ~options.migrate
    THEN Return(m, storedData.value)
  ELSE IF storedData.version > 0 /\ storedData.version > options.version
    THEN Return(Emit(m, Event("warn", "newer", "", 0)), storedData.value)
  ELSE migrateRun(Emit(m, Event("migrate", storedData.value, "", 0)),
                  migrate(storedData.value))

\* Mutant of migrateData: a record without a version counts as current.
migrateDataUnversionedCurrent(m, storedData) ==
  IF options.version = NoNum \/ ~options.migrate
    THEN Return(m, storedData.value)
  ELSE IF storedData.version = options.version \/ storedData.version = NoNum
    THEN Return(m, storedData.value)
  ELSE IF storedData.version > 0 /\ storedData.version > options.version
    THEN Return(Emit(m, Event("warn", "newer", "", 0)), storedData.value)
  ELSE migrateRun(Emit(m, Event("migrate", storedData.value, "", 0)),
                  migrate(storedData.value))

\* migrateData(storedData): T | null
migrateData(m, storedData) ==
  IF options.version = NoNum \/ ~options.migrate
    THEN Return(m, storedData.value)
  ELSE IF storedData.version = options.version
    THEN Return(m, storedData.value)
  ELSE IF storedData.version > 0 /\ storedData.version > options.version
    THEN Return(Emit(m, Event("warn", "newer", "", 0)), storedData.value)
  ELSE migrateRun(Emit(m, Event("migrate", storedData.value, "", 0)),
                  migrate(storedData.value))

(* -------------------------- notifyCallbacks --------------------------- *)

\* The subscriber whose callback throws whenever it is called.
ThrowingCallback == 0

\* try { callback(value) } catch (error) { console.error(...) }
tryCallback(m, value, callback) ==
  IF callback = ThrowingCallback
    THEN Emit(Emit(m, Event("callback", value, "", callback)),
              Event("console.error", "Update callback error", "", callback))
    ELSE Emit(m, Event("callback", value, "", callback))

RECURSIVE notifyFrom(_, _, _)
notifyFrom(m, value, i) ==
  IF i > Len(updateCallbacks)
    THEN m
    ELSE notifyFrom(tryCallback(m, value, updateCallbacks[i]), value, i + 1)

\* Mutant of notifyCallbacks: the try/catch around callback(value) is
\* missing, so forEach ends at the first callback that throws.
RECURSIVE notifyUnguarded(_, _, _)
notifyUnguarded(m, value, i) ==
  IF i > Len(updateCallbacks)
    THEN m
  ELSE IF updateCallbacks[i] = ThrowingCallback
    THEN Emit(m, Event("callback", value, "", ThrowingCallback))
  ELSE notifyUnguarded(Emit(m, Event("callback", value, "", updateCallbacks[i])),
                       value, i + 1)

notifyCallbacksUnguarded(m, value) == notifyUnguarded(m, value, 1)

\* Mutant of notifyCallbacks: the first subscriber is left out.
notifyCallbacksSkipsFirst(m, value) == notifyFrom(m, value, 2)

\* notifyCallbacks(value): every subscribed callback, in insertion order.
notifyCallbacks(m, value) == notifyFrom(m, value, 1)

(* ---------------------------- _setInternal ---------------------------- *)

\* _setInternal: the StoredData built for a validated value.
NewStoredData(value) ==
  StoredData("obj", value,
             IF options.version = NoNum THEN UndefTag ELSE options.version,
             now,
             IF options.ttl # 0 THEN now + options.ttl ELSE NoNum)

\* _setInternal: serialize, storage.setItem, notifyCallbacks.  full: the
\* backend rejects this write (setItem throws QuotaExceededError).
setItem(m, value, full) ==
  IF full
    THEN Throw(Emit(m, Event("setItem", "QuotaExceededError", key, 0)),
               "QuotaExceededError")
    ELSE Return(
           notifyCallbacks(
             Emit([m EXCEPT !.storage = serialize(NewStoredData(value))],
                  Event("setItem", value, key, 0)),
             value),
           UNDEF)

\* _setInternal after validate(data) ended as v: a thrown error is
\* rethrown, null is "Validation failed".
setValidated(v, full) ==
  IF v.threw THEN Throw(v.m, v.err)
  ELSE IF v.ret = NULL THEN Throw(v.m, "Validation failed")
  ELSE setItem(v.m, v.ret, full)

\* Mutant of _setInternal: the check of validate's result for null is
\* missing, so rejected data is stored.
_setInternalUnchecked(m, data, full) ==
  IF validate(m, data).threw
    THEN Throw(validate(m, data).m, validate(m, data).err)
    ELSE setItem(validate(m, data).m, data, full)

\* _setInternal(data)
_setInternal(m, data, full) == setValidated(validate(m, data), full)

(* ------------------------- debounce / throttle ------------------------ *)

Timer(kind, due, args) == [kind |-> kind, due |-> due, args |-> args]

\* clearTimeout(id); clearing null or a timer that has fired does nothing.
clearTimeout(m, id) ==
  [m EXCEPT !.timers = {tm \in @ : tm.due # id}]

\* Mutant of debouncedFn: the pending timer is not cleared.
debouncedFnNoClear(m, data) ==
  Return([m EXCEPT
            !.lastArgs = data,
            !.timeoutId = now + DelayMs,
            !.timers = @ \cup {Timer("debounce", now + DelayMs, data)}],
         UNDEF)

\* debounce(fn, delay): the debounced function
debouncedFn(m, data) ==
  Return([clearTimeout(m, m.timeoutId) EXCEPT
            !.lastArgs = data,
            !.timeoutId = now + DelayMs,
            !.timers = @ \cup {Timer("debounce", now + DelayMs, data)}],
         UNDEF)

\* throttledFn after fn.apply(this, args) ended as r.
throttleStarted(r) ==
  IF r.threw
    THEN r
    ELSE Return([r.m EXCEPT !.isThrottled = TRUE,
                            !.timeoutId = now + DelayMs,
                            !.timers = @ \cup {Timer("throttle", now + DelayMs, UNDEF)}],
                UNDEF)

\* throttle(fn, delay): the throttled function
throttledFn(m, data, full) ==
  IF m.isThrottled
    THEN Return([m EXCEPT !.lastArgs = data], UNDEF)
    ELSE throttleStarted(_setInternal(m, data, full))

\* set: _setInternal, debounced or throttled when so configured
set(m, data, full) ==
  CASE options.rate = "debounce" -> debouncedFn(m, data)
    [] options.rate = "throttle" -> throttledFn(m, data, full)
    [] OTHER -> _setInternal(m, data, full)

\* A timer callback after fn.apply ended as r: when fn threw, the
\* statements after it do not run.
timeoutDone(r) ==
  IF r.threw
    THEN r
    ELSE Return([r.m EXCEPT !.timeoutId = NoNum, !.lastArgs = UNDEF], UNDEF)

\* The callback debounce hands to setTimeout.
debounceTimeout(m, tm, full) ==
  timeoutDone(_setInternal([m EXCEPT !.timers = @ \ {tm}], tm.args, full))

\* The callback throttle hands to setTimeout.
throttleTimeout(m, tm, full) ==
  IF m.lastArgs # UNDEF
    THEN timeoutDone(_setInternal([m EXCEPT !.timers = @ \ {tm},
                                            !.isThrottled = FALSE],
                                  m.lastArgs, full))
    ELSE Return([m EXCEPT !.timers = @ \ {tm}, !.isThrottled = FALSE,
                          !.timeoutId = NoNum],
                UNDEF)

(* -------------------------------- get --------------------------------- *)

removeItem(m) ==
  Emit([m EXCEPT !.storage = AbsentRaw], Event("removeItem", "", key, 0))

\* get, "update storage with new version": set(value) ended as w.
getRewritten(w, value) == IF w.threw THEN w ELSE Return(w.m, value)

\* get after validate(value) ended as v.
getValidated(v, storedData, full) ==
  IF v.threw THEN v
  ELSE IF v.ret = NULL
    THEN Return(removeItem(v.m), DefaultOrNull(options))
  ELSE IF options.version # NoNum /\ storedData.version # options.version
    THEN getRewritten(set(v.m, v.ret, full), v.ret)
  ELSE Return(v.m, v.ret)

\* get after migrateData(storedData) ended as g.
getMigrated(g, storedData, full) ==
  IF g.threw THEN g
  ELSE IF g.ret = NULL
    THEN Return(g.m, DefaultOrNull(options))
  ELSE getValidated(validate(g.m, g.ret), storedData, full)

\* Mutant of getStored: the migration policy runs before the expiration
\* check.
getStoredMigratesFirst(m, storedData, full) ==
  IF storedData.t = "null"
    THEN Throw(m, "TypeError")
  ELSE IF migrateData(m, storedData).threw
    THEN migrateData(m, storedData)
  ELSE IF isExpired(storedData)
    THEN Return(removeItem(migrateData(m, storedData).m), DefaultOrNull(options))
  ELSE getMigrated(migrateData(m, storedData), storedData, full)

\* get from the expiration check on; reading a property of null throws.
getStored(m, storedData, full) ==
  IF storedData.t = "null"
    THEN Throw(m, "TypeError")
  ELSE IF isExpired(storedData)
    THEN Return(removeItem(m), DefaultOrNull(options))
  ELSE getMigrated(migrateData(m, storedData), storedData, full)

\* get after serializer.deserialize(raw) ended as d.
getDeserialized(m, d, full) ==
  IF d.threw THEN Throw(m, d.err) ELSE getStored(m, d.ret, full)

\* The try block of get().
getTry(m, full) ==
  IF m.storage.t \in {"absent", "empty"}
    THEN Return(m, DefaultOrNull(options))
    ELSE getDeserialized(m, deserialize(m.storage), full)

\* The catch clause of get(), after the error callback ended as c.
getReported(c) ==
  IF c.threw THEN Throw(c.m, c.err) ELSE Return(c.m, DefaultOrNull(options))

\* The catch clause of get().
getCatch(t) ==
  IF ~t.threw
    THEN t
    ELSE IF options.onValidationError = "none"
           THEN Return(t.m, DefaultOrNull(options))
           ELSE getReported(onValidationError(t.m, t.err))

\* get(): T | null
get(m, full) == getCatch(getTry(m, full))

(* ------------------------------- remove ------------------------------- *)

\* Mutant of remove: the subscribers are told, the key is not deleted.
removeKeepsItem(m) == Return(notifyCallbacks(m, NULL), UNDEF)

\* remove()
remove(m) == Return(notifyCallbacks(removeItem(m), NULL), UNDEF)

(* ------------------------ update / has / getRaw ----------------------- *)

\* The updater functions callers pass to update: "next" turns a into b and
\* everything else (b, null) into a; "bad" returns data no schema accepts.
Updaters == {"next", "bad"}

\* fn(current)
applyUpdater(fn, current) ==
  CASE fn = "bad" -> "x"
    [] current = "a" -> "b"
    [] OTHER -> "a"

\* update after get() ended as g: fn(current), then set(newValue).
updateGot(g, fn, full) ==
  IF g.threw
    THEN g
    ELSE set(Emit(g.m, Event("updater", g.ret, fn, 0)), applyUpdater(fn, g.ret), full)

\* Mutant of update: fn receives null, whatever is stored.
updateFromNull(m, fn, full) ==
  set(Emit(m, Event("updater", NULL, fn, 0)), applyUpdater(fn, NULL), full)

\* update(fn)
update(m, fn, full) == updateGot(get(m, full), fn, full)

\* has after get() ended as g: get() !== null.
hasGot(g) == IF g.threw THEN g ELSE Return(g.m, g.ret # NULL)

\* has()
has(m, full) == hasGot(get(m, full))

\* The value null where a StoredData is expected.
NullData == StoredData("null", UNDEF, NoNum, NoNum, NoNum)

\* getRaw after serializer.deserialize(raw) ended as d; the catch clause
\* returns null.
getRawDeserialized(m, d) ==
  IF d.threw THEN Return(m, NullData) ELSE Return(m, d.ret)

\* Mutant of getRaw: an expired record is reported as null.
getRawChecksExpiry(m) ==
  IF m.storage.t \in {"absent", "empty"}
    THEN Return(m, NullData)
  ELSE IF ~deserialize(m.storage).threw /\ isExpired(deserialize(m.storage).ret)
    THEN Return(m, NullData)
  ELSE getRawDeserialized(m, deserialize(m.storage))

\* getRaw(): StoredData<T> | null
getRaw(m) ==
  IF m.storage.t \in {"absent", "empty"}
    THEN Return(m, NullData)
    ELSE getRawDeserialized(m, deserialize(m.storage))

(* ------------------------ handleStorageEvent -------------------------- *)

\* handleStorageEvent after validate(value) ended as v.
handleValidated(v) ==
  IF v.threw THEN v
  ELSE IF v.ret = NULL THEN Return(v.m, UNDEF)
  ELSE Return(notifyCallbacks(v.m, v.ret), UNDEF)

\* handleStorageEvent after migrateData(storedData) ended as g.
handleMigrated(g) ==
  IF g.threw THEN g
  ELSE IF g.ret = NULL THEN Return(g.m, UNDEF)
  ELSE handleValidated(validate(g.m, g.ret))

\* Mutant of handleStored: an expired record is deleted, as get() does.
handleStoredHeals(m, storedData) ==
  IF storedData.t = "null"
    THEN Throw(m, "TypeError")
  ELSE IF isExpired(storedData)
    THEN Return(notifyCallbacks(removeItem(m), NULL), UNDEF)
  ELSE handleMigrated(migrateData(m, storedData))

\* handleStorageEvent from the expiration check on.
handleStored(m, storedData) ==
  IF storedData.t = "null"
    THEN Throw(m, "TypeError")
  ELSE IF isExpired(storedData)
    THEN Return(notifyCallbacks(m, NULL), UNDEF)
  ELSE handleMigrated(migrateData(m, storedData))

\* handleStorageEvent after serializer.deserialize(event.newValue) ended as d.
handleDeserialized(m, d) ==
  IF d.threw THEN Throw(m, d.err) ELSE handleStored(m, d.ret)

\* The catch clause of handleStorageEvent: console.error and nothing else.
handleCaught(t) == IF t.threw THEN Return(t.m, UNDEF) ELSE t

\* Mutant of handleStorageEvent: the check of event.key is missing.
handleStorageEventAnyKey(m, eventKey, newValue) ==
  IF newValue.t = "absent"
    THEN Return(notifyCallbacks(m, NULL), UNDEF)
    ELSE handleCaught(handleDeserialized(m, deserialize(newValue)))

\* handleStorageEvent(event)
handleStorageEvent(m, eventKey, newValue) ==
  IF eventKey # key
    THEN Return(m, UNDEF)
  ELSE IF newValue.t = "absent"
    THEN Return(notifyCallbacks(m, NULL), UNDEF)
  ELSE handleCaught(handleDeserialized(m, deserialize(newValue)))

(* ------------------------------ onUpdate ------------------------------ *)

\* The subscriber set and the window's listener registrations, with the log
\* of the calls to window.addEventListener / removeEventListener.
Subscription ==
  [callbacks |-> updateCallbacks, listeners |-> listeners, log |-> <<>>]

\* window.addEventListener('storage', handleStorageEvent): the window keeps
\* one registration per listener function.
addEventListener(s) ==
  [s EXCEPT !.listeners = IF @ = 0 THEN 1 ELSE @,
            !.log = Append(@, Event("addEventListener", "storage", "", 0))]

\* window.removeEventListener('storage', handleStorageEvent)
removeEventListener(s) ==
  [s EXCEPT !.listeners = IF @ > 0 THEN @ - 1 ELSE 0,
            !.log = Append(@, Event("removeEventListener", "storage", "", 0))]

\* updateCallbacks.add(callback): a Set keeps one entry per callback.
add(callbacks, callback) ==
  IF \E i \in 1..Len(callbacks) : callbacks[i] = callback
    THEN callbacks
    ELSE Append(callbacks, callback)

\* onUpdate(callback)
onUpdate(s, callback) ==
  addEventListener([s EXCEPT !.callbacks = add(@, callback)])

\* Mutant of unsubscribe: the listener is never removed.
unsubscribeKeepsListener(s, callback) ==
  [s EXCEPT !.callbacks = SelectSeq(@, LAMBDA c : c # callback)]

\* The function onUpdate returns: updateCallbacks.delete(callback), and the
\* listener is removed when no callback is left.
unsubscribe(s, callback) ==
  IF SelectSeq(s.callbacks, LAMBDA c : c # callback) = <<>>
    THEN removeEventListener([s EXCEPT !.callbacks = <<>>])
    ELSE [s EXCEPT !.callbacks = SelectSeq(@, LAMBDA c : c # callback)]

(* ------------------- defaultSerializer on value trees ------------------ *)

\* Nesting depth of the values handed to the serializer.
MaxDepth == 2

\* JavaScript values as trees: a type and a payload.  Objects hold a
\* sequence of properties, arrays and Sets a sequence of elements, Maps a
\* sequence of <<key, value>> entries, a Date its ISO string.  JSON text is
\* written as the tree of the JSON value it denotes (strings, numbers, null,
\* objects, arrays).
Str(s) == [t |-> "string", v |-> s]

Num(n) == [t |-> "number", v |-> n]

Null == [t |-> "null", v |-> ""]

Undefined == [t |-> "undefined", v |-> ""]

\* An array index that holds no element (a deleted element).
Hole == [t |-> "hole", v |-> ""]

DateOf(iso) == [t |-> "Date", v |-> iso]

InvalidDate == DateOf("Invalid Date")

IsoDate == "2024-01-01T00:00:00.000Z"

P(k, x) == [key |-> k, val |-> x]

Obj(props) == [t |-> "object", v |-> props]

Arr(elems) == [t |-> "array", v |-> elems]

MapOf(entries) == [t |-> "Map", v |-> entries]

SetOf(elems) == [t |-> "Set", v |-> elems]

\* An exception thrown while reviving (new Map of something that is not a
\* list of entries).
Thrown == [t |-> "throw", v |-> "TypeError"]

\* '__type' in value, and value.__type / value.value (undefined when absent)
HasProp(o, k) == o.t = "object" /\ \E i \in 1..Len(o.v) : o.v[i].key = k

GetProp(o, k) ==
  IF HasProp(o, k)
    THEN o.v[CHOOSE i \in 1..Len(o.v) : o.v[i].key = k].val
    ELSE Undefined

\* Date.prototype.toJSON: JSON.stringify calls it before the replacer.
toJSON(value) == IF value.t = "Date" THEN Str(value.v) ELSE value

\* replacer: originalValue = key ? this[key] : value
originalValue(k, original, value) == IF k # "" THEN original ELSE value

\* replacer, from originalValue on: the tagged objects.
replacerTagged(ov, value) ==
  CASE ov.t = "Date" -> Obj(<<P("__type", Str("Date")), P("value", Str(ov.v))>>)
    [] ov.t = "Map" ->
         Obj(<<P("__type", Str("Map")),
               P("value", Arr([i \in 1..Len(ov.v) |-> Arr(ov.v[i])]))>>)
    [] ov.t = "Set" -> Obj(<<P("__type", Str("Set")), P("value", Arr(ov.v))>>)
    [] ov.t = "undefined" -> Obj(<<P("__type", Str("undefined"))>>)
    [] OTHER -> value

\* replacer.call(holder, key, value) with holder[key] = original
replacerValue(k, original, value) ==
  replacerTagged(originalValue(k, original, value), value)

RECURSIVE stringifyValue(_)

\* JSON.stringify, one property: toJSON, then the replacer, then the
\* properties or elements of what the replacer returned.
SerializeJSONProperty(k, original) ==
  stringifyValue(replacerValue(k, original, toJSON(original)))

\* The keys of array elements are their indices "0", "1", ...
stringifyValue(value) ==
  CASE value.t = "object" ->
         Obj([i \in 1..Len(value.v) |->
                P(value.v[i].key, SerializeJSONProperty(value.v[i].key, value.v[i].val))])
    [] value.t = "array" ->
         Arr([i \in 1..Len(value.v) |-> SerializeJSONProperty(ToString(i - 1), value.v[i])])
    [] OTHER -> value

\* defaultSerializer.serialize on a value tree: JSON.stringify({__root: data},
\* replacer); the wrapper itself is seen under the key "".
serializeData(data) == SerializeJSONProperty("", Obj(<<P("__root", data)>>))

\* new Date(value.value): a Date for an ISO string, the epoch for null, an
\* invalid Date for undefined and for strings that are no dates.
newDate(x) ==
  CASE x.t = "string" /\ x.v = IsoDate -> DateOf(x.v)
    [] x.t = "null" -> DateOf("1970-01-01T00:00:00.000Z")
    [] OTHER -> InvalidDate

\* An element read from an array: a hole reads as undefined.
elementAt(a, n) ==
  IF a.t = "array" /\ Len(a.v) >= n /\ a.v[n].t # "hole" THEN a.v[n] ELSE Undefined

IsObject(x) == x.t \in {"object", "array", "Date", "Map", "Set"}

\* new Map(value.value): empty for undefined, null and ""; the entries of an
\* array of objects; TypeError for an array with an element that is not an
\* object and for everything that is not iterable or iterates over
\* characters.
newMap(x) ==
  CASE x.t \in {"undefined", "null"} -> MapOf(<<>>)
    [] x.t = "string" /\ x.v = "" -> MapOf(<<>>)
    [] x.t = "array" /\ (\A i \in 1..Len(x.v) : IsObject(x.v[i])) ->
         MapOf([i \in 1..Len(x.v) |-> <<elementAt(x.v[i], 1), elementAt(x.v[i], 2)>>])
    [] OTHER -> Thrown

\* new Set(value.value): empty for undefined, null and ""; the elements of
\* an array; the characters of a string (the strings here have one);
\* TypeError for what is not iterable.
newSet(x) ==
  CASE x.t \in {"undefined", "null"} -> SetOf(<<>>)
    [] x.t = "string" -> IF x.v = "" THEN SetOf(<<>>) ELSE SetOf(<<x>>)
    [] x.t = "array" -> SetOf([i \in 1..Len(x.v) |-> elementAt(x, i)])
    [] OTHER -> Thrown

\* reviver, the switch on typed.__type
reviverTyped(type, payload, value) ==
  CASE type = Str("Date") -> newDate(payload)
    [] type = Str("Map") -> newMap(payload)
    [] type = Str("Set") -> newSet(payload)
    [] type = Str("undefined") -> Undefined
    [] OTHER -> value

\* reviver(_key, value)
reviverValue(value) ==
  IF HasProp(value, "__type")
    THEN reviverTyped(GetProp(value, "__type"), GetProp(value, "value"), value)
    ELSE value

\* JSON.parse with a reviver, an object whose properties have been revived:
\* a property revived to undefined is deleted, then the reviver sees the
\* object.
revivedObject(props) ==
  IF \E i \in 1..Len(props) : props[i].val = Thrown
    THEN Thrown
    ELSE reviverValue(Obj(SelectSeq(props, LAMBDA p : p.val.t # "undefined")))

\* The same for an array: an element revived to undefined leaves a hole.
revivedArray(elems) ==
  IF \E i \in 1..Len(elems) : elems[i] = Thrown
    THEN Thrown
    ELSE reviverValue(Arr([i \in 1..Len(elems) |->
                             IF elems[i].t = "undefined" THEN Hole ELSE elems[i]]))

RECURSIVE internalize(_)

\* JSON.parse(text, reviver): children first, then the value itself.
internalize(json) ==
  CASE json.t = "object" ->
         revivedObject([i \in 1..Len(json.v) |->
                          P(json.v[i].key, internalize(json.v[i].val))])
    [] json.t = "array" ->
         revivedArray([i \in 1..Len(json.v) |-> internalize(json.v[i])])
    [] OTHER -> reviverValue(json)

\* deserialize after JSON.parse(data, reviver) ended as parsed: unwraps
\* __root when parsed is an object that has it; any exception becomes
\* 'Failed to deserialize data'.
deserializeParsed(parsed) ==
  IF parsed = Thrown
    THEN Throw([log |-> <<>>], "Failed to deserialize data")
  ELSE IF HasProp(parsed, "__root")
    THEN Return([log |-> <<>>], GetProp(parsed, "__root"))
  ELSE Return([log |-> <<>>], parsed)

\* defaultSerializer.deserialize on the tree of a JSON text
deserializeText(text) == deserializeParsed(internalize(text))

\* The values handed to the serializer: primitives, a Date, undefined, plain
\* objects that carry a property named __type, and objects (also under the
\* key ""), arrays, Maps and Sets of these.
Lookalikes ==
  {Obj(<<P("__type", Str(k))>>) : k \in {"undefined", "other"}}
    \cup {Obj(<<P("__type", Str(k)), P("value", Str("s"))>>) : k \in {"Date", "Map", "Set"}}

Leaves == {Str("s"), Num(1), Null, DateOf(IsoDate), Undefined} \cup Lookalikes

ContainersOf(c) ==
  {Obj(<<P("a", c)>>), Obj(<<P("", c)>>), Arr(<<c>>),
   MapOf(<< <<Str("s"), c>> >>), MapOf(<< <<c, Str("s")>> >>), SetOf(<<c>>)}

RECURSIVE ValuesOfDepth(_)

ValuesOfDepth(d) ==
  IF d = 0
    THEN Leaves
    ELSE Leaves \cup UNION {ContainersOf(c) : c \in ValuesOfDepth(d - 1)}

SerializerValues == ValuesOfDepth(MaxDepth)

(* --------------------------- cleanupStorage --------------------------- *)

\* The keys of the storage the cleanup runs over, in the order storage.key(i)
\* yields them, and the prefix each starts with.
CleanupKeys == <<"cache:1", "user:1">>

KeyPrefix(k) == IF k = "cache:1" THEN "cache:" ELSE "user:"

\* key.startsWith(prefix), for the prefixes "cache:" and "user:"
startsWith(k, prefix) == KeyPrefix(k) = prefix

\* parseStoredData(value).timestamp || 0: JSON.parse(value).timestamp, read
\* at the top level of the parsed text; 0 when the text is not JSON
\* or has no such property.
parseStoredData(value) ==
  IF value.t = "obj" /\ ~value.wrapped /\ value.timestamp >= 0
    THEN value.timestamp
    ELSE 0

\* getAllItems(storage, prefix): the keys of the items, in storage order;
\* keys that do not start with the prefix and empty values are skipped.
getAllItems(items, prefix) ==
  SelectSeq(CleanupKeys,
            LAMBDA k : /\ prefix # UNDEF => startsWith(k, prefix)
                       /\ items[k].t \notin {"absent", "empty"})

\* The maxAge block: the keys to remove, none when maxAge is 0 or absent.
keysToRemove(items, allItems, maxAge, dateNow) ==
  IF maxAge > 0
    THEN SelectSeq(allItems, LAMBDA k : dateNow - parseStoredData(items[k]) > maxAge)
    ELSE <<>>

\* storage.removeItem for each key to remove, unless dryRun.
removeKeys(items, keys, dryRun) ==
  IF dryRun
    THEN items
    ELSE [k \in DOMAIN items |->
            IF \E i \in 1..Len(keys) : keys[i] = k THEN AbsentRaw ELSE items[k]]

\* cleanupStorage({maxAge, prefix, dryRun}) at time dateNow: the result
\* (removed, keys) and the storage it leaves.
cleanupStorage(items, o, dateNow) ==
  Return([log |-> <<>>],
         [removed |-> Len(keysToRemove(items, getAllItems(items, o.prefix), o.maxAge, dateNow)),
          keys |-> keysToRemove(items, getAllItems(items, o.prefix), o.maxAge, dateNow),
          storage |-> removeKeys(items,
                                 keysToRemove(items, getAllItems(items, o.prefix),
                                              o.maxAge, dateNow),
                                 o.dryRun)])

\* What a key can hold when the cleanup runs at time dateNow: nothing, the
\* empty string, text that is not JSON, a bare record without timestamp, a
\* bare record {value, timestamp} written at some earlier time, and a record
\* as the store's set writes it at that time through the default serializer.
CleanupTexts(dateNow) ==
  {AbsentRaw, EmptyRaw, GarbageRaw, RawText("obj", FALSE, "a", NoNum, NoNum, NoNum)}
    \cup {RawText("obj", FALSE, "a", NoNum, ts, NoNum) : ts \in 0..dateNow}
    \cup {serialize(StoredData("obj", "a", NoNum, ts, NoNum)) : ts \in 0..dateNow}

CleanupOptions ==
  [maxAge : {0, 1, 2}, prefix : {UNDEF, "cache:"}, dryRun : BOOLEAN]

CleanupInputs(dateNow) ==
  [storage : [{CleanupKeys[i] : i \in 1..Len(CleanupKeys)} -> CleanupTexts(dateNow)],
   options : CleanupOptions]

(* -------------------------- batchTransaction -------------------------- *)

\* The longest operation list handed to batchTransaction.
MaxOps == 3

\* The backend holds at most Capacity characters; setItem throws
\* QuotaExceededError beyond.  Values are strings of 1..Capacity - 1
\* characters, written as their length; NoNum is null (no item).
Capacity == 3

BatchKeys == {"k1", "k2"}

BatchValues == 1..(Capacity - 1)

\* The characters the backend holds.
usedSpace(st) ==
  (IF st["k1"] = NoNum THEN 0 ELSE st["k1"]) + (IF st["k2"] = NoNum THEN 0 ELSE st["k2"])

\* How a run of storage calls stands: the storage and whether a call threw.
Ran(st, threw) == [storage |-> st, threw |-> threw]

\* storage.setItem(key, value) on the backend
storageSetItem(st, k, value) ==
  IF usedSpace([st EXCEPT ![k] = value]) > Capacity
    THEN Ran(st, TRUE)
    ELSE Ran([st EXCEPT ![k] = value], FALSE)

\* storage.removeItem(key)
storageRemoveItem(st, k) == Ran([st EXCEPT ![k] = NoNum], FALSE)

\* One operation of the list: a set with a value, a remove; a set without
\* value does nothing.
executeOperation(st, o) ==
  IF o.type = "set" /\ o.value # NoNum
    THEN storageSetItem(st, o.key, o.value)
  ELSE IF o.type = "remove"
    THEN storageRemoveItem(st, o.key)
  ELSE Ran(st, FALSE)

RECURSIVE executeFrom(_, _, _)

\* The loop that executes the operations, from the i-th on; it ends at the
\* first call that throws.
executeFrom(r, operations, i) ==
  IF r.threw \/ i > Len(operations)
    THEN r
    ELSE executeFrom(executeOperation(r.storage, operations[i]), operations, i + 1)

RECURSIVE backupKeys(_, _)

\* The keys of the backup Map in insertion order: each key of the first i
\* operations once, in the order of its first occurrence.
backupKeys(operations, i) ==
  IF i = 0
    THEN <<>>
  ELSE IF \E j \in 1..(i - 1) : operations[j].key = operations[i].key
    THEN backupKeys(operations, i - 1)
  ELSE Append(backupKeys(operations, i - 1), operations[i].key)

\* One step of the rollback: removeItem when the backup holds null, setItem
\* of the backed-up value otherwise.
rollbackKey(st, k, value) ==
  IF value = NoNum THEN storageRemoveItem(st, k) ELSE storageSetItem(st, k, value)

RECURSIVE rollbackFrom(_, _, _, _)

\* The rollback loop in the catch clause, from the i-th key of the backup on;
\* nothing catches a call that throws here.
rollbackFrom(r, keys, backup, i) ==
  IF r.threw \/ i > Len(keys)
    THEN r
    ELSE rollbackFrom(rollbackKey(r.storage, keys[i], backup[keys[i]]), keys, backup, i + 1)

\* batchTransaction once the rollback ended as r: {success: false, error},
\* or the exception of the rollback.
batchRolledBack(r) ==
  [m |-> [log |-> <<>>], threw |-> r.threw,
   err |-> IF r.threw THEN "QuotaExceededError" ELSE UNDEF,
   ret |-> [success |-> FALSE, storage |-> r.storage]]

\* batchTransaction once the operations ended as r; backup is the storage
\* before the call.
batchExecuted(r, operations, backup) ==
  IF r.threw
    THEN batchRolledBack(rollbackFrom(Ran(r.storage, FALSE),
                                      backupKeys(operations, Len(operations)), backup, 1))
    ELSE Return([log |-> <<>>], [success |-> TRUE, storage |-> r.storage])

\* batchTransaction(operations): the result, with the storage the call
\* leaves.
batchTransaction(st, operations) ==
  batchExecuted(executeFrom(Ran(st, FALSE), operations, 1), operations, st)

\* The operations and the lists of them; NoNum as value is an operation
\* without value.
BatchOperations ==
  [type : {"set"}, key : BatchKeys, value : BatchValues \cup {NoNum}]
    \cup [type : {"remove"}, key : BatchKeys, value : {NoNum}]

BatchInputs ==
  [storage : {st \in [BatchKeys -> BatchValues \cup {NoNum}] : usedSpace(st) <= Capacity},
   operations : UNION {[1..n -> BatchOperations] : n \in 0..MaxOps}]

(* ---------------------- composeMiddleware / applyMiddleware ------------ *)

\* Length of the middleware arrays.
MaxMiddlewares == 2

\* What a middleware does with next: it calls it once (the built-in
\* middlewares), never, twice in a row, once more after the first call threw,
\* or it throws before calling it.
MiddlewareKinds == {"next", "skip", "twice", "retry", "throws"}

MiddlewareActions == {"get", "set", "update", "remove"}

\* One call of the composed function: its variable index and the log of the
\* middlewares run, their calls of next, and the calls of final.
Composed == [index |-> -1, log |-> <<>>]

Stepped(c, i, e) ==
  [c EXCEPT !.index = i, !.log = Append(@, Event(e, UNDEF, "", i))]

RECURSIVE dispatch(_, _, _, _)
RECURSIVE middleware(_, _, _, _)

\* The second next() of a middleware that calls it twice in a row: it is
\* made when the first call returned.
nextAgain(middlewares, finalThrows, r, i) ==
  IF r.threw
    THEN r
    ELSE dispatch(middlewares, finalThrows,
                  [r.m EXCEPT !.log = Append(@, Event("next", UNDEF, "", i))], i + 1)

\* The second next() of a middleware that catches the error of the first.
nextRetry(middlewares, finalThrows, r, i) ==
  IF r.threw
    THEN dispatch(middlewares, finalThrows,
                  [r.m EXCEPT !.log = Append(@, Event("next", UNDEF, "", i))], i + 1)
    ELSE r

\* The first next() of middlewares[i]: () => dispatch(i + 1).
nextOf(middlewares, finalThrows, c, i) ==
  dispatch(middlewares, finalThrows,
           [c EXCEPT !.log = Append(@, Event("next", UNDEF, "", i))], i + 1)

\* middlewares[i](context, next), i counted from 0 as in the source.
middleware(middlewares, finalThrows, c, i) ==
  CASE middlewares[i + 1] = "skip" -> Return(c, UNDEF)
    [] middlewares[i + 1] = "throws" -> Throw(c, "MiddlewareError")
    [] middlewares[i + 1] = "next" -> nextOf(middlewares, finalThrows, c, i)
    [] middlewares[i + 1] = "twice" ->
         nextAgain(middlewares, finalThrows, nextOf(middlewares, finalThrows, c, i), i)
    [] OTHER ->
         nextRetry(middlewares, finalThrows, nextOf(middlewares, finalThrows, c, i), i)

\* Mutant of dispatch: the check of i against index is missing.
dispatchUnchecked(middlewares, finalThrows, c, i) ==
  IF i = Len(middlewares)
    THEN IF finalThrows
           THEN Throw(Stepped(c, i, "final"), "Validation failed")
           ELSE Return(Stepped(c, i, "final"), UNDEF)
    ELSE middleware(middlewares, finalThrows, Stepped(c, i, "middleware"), i)

\* dispatch(i); final is the wrapped store operation, which returns or throws.
dispatch(middlewares, finalThrows, c, i) ==
  IF i <= c.index
    THEN Throw([c EXCEPT !.log = Append(@, Event("error", UNDEF, "", i))],
               "Middleware called next() multiple times")
  ELSE IF i = Len(middlewares)
    THEN IF finalThrows
           THEN Throw(Stepped(c, i, "final"), "Validation failed")
           ELSE Return(Stepped(c, i, "final"), UNDEF)
  ELSE middleware(middlewares, finalThrows, Stepped(c, i, "middleware"), i)

\* composeMiddleware(middlewares)(context, final)
composeMiddleware(middlewares, finalThrows) ==
  dispatch(middlewares, finalThrows, Composed, 0)

\* The wrapped operation of the model: store.get() returns "a".
applied(action, r) ==
  IF r.threw THEN r
  ELSE IF action # "get" THEN Return(r.m, UNDEF)
  ELSE IF \E n \in 1..Len(r.m.log) : r.m.log[n].e = "final" THEN Return(r.m, "a")
  ELSE Return(r.m, NULL)

\* applyMiddleware(store, middlewares)[action](...): composed(context, final),
\* and for get the result final assigned, null when final never ran.
applyMiddleware(action, middlewares, finalThrows) ==
  applied(action, composeMiddleware(middlewares, finalThrows))

MiddlewareInputs ==
  [action : MiddlewareActions,
   middlewares : UNION {[1..n -> MiddlewareKinds] : n \in 0..MaxMiddlewares},
   finalThrows : BOOLEAN]

(* ------------------------------ actions ------------------------------- *)

Callbacks == 1..MaxCallbacks

\* The arguments the caller passes to set: valid data, invalid data, null.
SetArgs == {"a", "b", "x", NULL}

\* Text another writer (another tab, an earlier release of the application)
\* leaves under the key: bare JSON objects as JSON.stringify writes them.
ForeignRecord(value, version, expiresAt) ==
  RawText("obj", FALSE, value, version, NoNum, expiresAt)

ForeignRaws ==
  {EmptyRaw, GarbageRaw, NullRaw}
    \cup {ForeignRecord(v, 1, NoNum) : v \in {"a", "b", "x", "y", NULL, MissingS}}
    \cup {ForeignRecord(v, ver, NoNum) : v \in {"a", "x"}, ver \in {NoNum, 2, 3}}
    \cup {ForeignRecord(v, ver, 1) : v \in {"a", "x"}, ver \in {1, 2}}

\* What the last operation was and did: its name and argument, how it ended,
\* the calls it made, and the text it read: the stored text before it or,
\* for a storage event, event.newValue.
Op(name, arg, r, pre) ==
  [name |-> name, arg |-> arg, threw |-> r.threw, ret |-> r.ret, err |-> r.err,
   log |-> r.m.log, pre |-> pre]

NoResult == Return([log |-> <<>>], UNDEF)

\* The successful storage.setItem calls of a log.
Writes(log) ==
  SelectSeq(log, LAMBDA ev : ev.e = "setItem" /\ ev.a # "QuotaExceededError")

\* History: the last write of the caller's own set calls that no remove and
\* no other writer has replaced: the value written and when.
Written(kind, value, at) == [kind |-> kind, value |-> value, at |-> at]

\* History of the rate limiter: the latest call of set by the caller (its
\* argument, its time, and whether it found no timer of the wrapper pending
\* and no throttle window open), "open" until a timer of the wrapper fires
\* and "fired" in the state that timer leaves.
Burst(state, first, arg, at) == [state |-> state, first |-> first, arg |-> arg, at |-> at]

NoBurst == Burst("none", FALSE, UNDEF, 0)

\* No call of the wrapper is pending: this call starts a burst / a window.
WindowClosed ==
  IF options.rate = "throttle" THEN ~isThrottled ELSE timers = {}

\* The history after an operation that is neither a set nor a timer.
Settled == IF burst.state = "fired" THEN NoBurst ELSE burst

\* The state an operation leaves behind.
Commit(name, arg, r) ==
  /\ storage' = r.m.storage
  /\ timers' = r.m.timers
  /\ timeoutId' = r.m.timeoutId
  /\ lastArgs' = r.m.lastArgs
  /\ isThrottled' = r.m.isThrottled
  /\ op' = Op(name, arg, r, storage)
  /\ written' =
       CASE name = "remove" -> Written("none", UNDEF, 0)
         [] name \in {"set", "timer"} /\ ~r.threw /\ Writes(r.m.log) # <<>> ->
              Written("set", IF name = "set" THEN arg ELSE Writes(r.m.log)[1].a, now)
         [] name = "update" /\ ~r.threw /\ Writes(r.m.log) # <<>> ->
              Written("set", Writes(r.m.log)[Len(Writes(r.m.log))].a, now)
         [] OTHER -> written
  /\ burst' =
       CASE name = "set" /\ options.rate # "none" ->
              Burst("open", WindowClosed, arg, now)
         [] name = "timer" ->
              IF burst.state = "open" THEN [burst EXCEPT !.state = "fired"] ELSE NoBurst
         [] OTHER -> Settled

InitWith(configurations) ==
  /\ options \in configurations
  /\ now = 0
  /\ storage = AbsentRaw
  /\ updateCallbacks = <<>>
  /\ timers = {}
  /\ timeoutId = NoNum
  /\ lastArgs = UNDEF
  /\ isThrottled = FALSE
  /\ listeners = 0
  /\ op = Op("init", UNDEF, NoResult, AbsentRaw)
  /\ written = Written("none", UNDEF, 0)
  /\ burst = NoBurst
  /\ unsubscribers = <<>>

\* store.get()
Get ==
  \E full \in BOOLEAN :
    /\ Commit("get", UNDEF, get(Machine, full))
    /\ UNCHANGED <<options, now, updateCallbacks, listeners, unsubscribers>>

\* store.set(data)
Set ==
  \E data \in SetArgs, full \in BOOLEAN :
    /\ Commit("set", data, set(Machine, data, full))
    /\ UNCHANGED <<options, now, updateCallbacks, listeners, unsubscribers>>

\* store.remove()
Remove ==
  /\ Commit("remove", UNDEF, remove(Machine))
  /\ UNCHANGED <<options, now, updateCallbacks, listeners, unsubscribers>>

\* store.update(fn)
Update ==
  \E fn \in Updaters, full \in BOOLEAN :
    /\ Commit("update", fn, update(Machine, fn, full))
    /\ UNCHANGED <<options, now, updateCallbacks, listeners, unsubscribers>>

\* store.has()
Has ==
  \E full \in BOOLEAN :
    /\ Commit("has", UNDEF, has(Machine, full))
    /\ UNCHANGED <<options, now, updateCallbacks, listeners, unsubscribers>>

\* store.getRaw()
GetRaw ==
  /\ Commit("getRaw", UNDEF, getRaw(Machine))
  /\ UNCHANGED <<options, now, updateCallbacks, listeners, unsubscribers>>

\* A pending timer of the wrapper comes due and its callback runs.
TimerFire ==
  \E tm \in timers, full \in BOOLEAN :
    /\ tm.due <= now
    /\ Commit("timer", tm.args,
              IF tm.kind = "debounce" THEN debounceTimeout(Machine, tm, full)
                                      ELSE throttleTimeout(Machine, tm, full))
    /\ UNCHANGED <<options, now, updateCallbacks, listeners, unsubscribers>>

\* Time passes; a timer that is due fires before the clock moves on.
Tick ==
  /\ now < MaxTime
  /\ \A tm \in timers : tm.due > now
  /\ now' = now + 1
  /\ op' = Op("tick", UNDEF, NoResult, AbsentRaw)
  /\ burst' = Settled
  /\ UNCHANGED <<options, storage, updateCallbacks, timers, timeoutId, lastArgs,
                 isThrottled, listeners, written, unsubscribers>>

\* Another writer replaces the text under the key.
ForeignWrite ==
  \E raw \in ForeignRaws :
    /\ storage' = raw
    /\ op' = Op("foreign", UNDEF, NoResult, AbsentRaw)
    /\ written' = Written("foreign", UNDEF, 0)
    /\ burst' = Settled
    /\ UNCHANGED <<options, now, updateCallbacks, timers, timeoutId, lastArgs,
                   isThrottled, listeners, unsubscribers>>

\* store.onUpdate(callback)
OnUpdate ==
  \E cb \in Callbacks :
    /\ updateCallbacks' = onUpdate(Subscription, cb).callbacks
    /\ listeners' = onUpdate(Subscription, cb).listeners
    /\ op' = Op("onUpdate", UNDEF, Return(onUpdate(Subscription, cb), UNDEF), AbsentRaw)
    /\ burst' = Settled
    /\ UNCHANGED <<options, now, storage, timers, timeoutId, lastArgs, isThrottled,
                   written, unsubscribers>>

\* The unsubscribe function onUpdate returned for callback.
Unsubscribe ==
  \E cb \in Callbacks :
    /\ updateCallbacks' = unsubscribe(Subscription, cb).callbacks
    /\ listeners' = unsubscribe(Subscription, cb).listeners
    /\ op' = Op("unsubscribe", UNDEF, Return(unsubscribe(Subscription, cb), UNDEF),
                AbsentRaw)
    /\ burst' = Settled
    /\ UNCHANGED <<options, now, storage, timers, timeoutId, lastArgs, isThrottled,
                   written, unsubscribers>>

\* store.onUpdate(callback) with a callback that throws.
OnUpdateThrowing ==
  /\ updateCallbacks' = onUpdate(Subscription, ThrowingCallback).callbacks
  /\ listeners' = onUpdate(Subscription, ThrowingCallback).listeners
  /\ op' = Op("onUpdate", ThrowingCallback,
              Return(onUpdate(Subscription, ThrowingCallback), UNDEF), AbsentRaw)
  /\ burst' = Settled
  /\ UNCHANGED <<options, now, storage, timers, timeoutId, lastArgs, isThrottled,
                 written, unsubscribers>>

\* Number of onUpdate calls whose unsubscribe function the caller keeps.
MaxUnsubscribers == 3

\* An unsubscribe function: the callback its closure holds, and how often
\* the caller has called it (2 stands for twice or more).
Unsubscriber(callback, calls) == [callback |-> callback, calls |-> calls]

\* const unsubscribe = store.onUpdate(callback): the caller keeps the
\* function onUpdate returns.
OnUpdateReturns ==
  \E cb \in Callbacks :
    /\ Len(unsubscribers) < MaxUnsubscribers
    /\ updateCallbacks' = onUpdate(Subscription, cb).callbacks
    /\ listeners' = onUpdate(Subscription, cb).listeners
    /\ unsubscribers' = Append(unsubscribers, Unsubscriber(cb, 0))
    /\ op' = Op("onUpdate", UNDEF, Return(onUpdate(Subscription, cb), UNDEF), AbsentRaw)
    /\ burst' = Settled
    /\ UNCHANGED <<options, now, storage, timers, timeoutId, lastArgs, isThrottled,
                   written>>

\* The caller calls one of the unsubscribe functions it keeps, for the first
\* time or again.
CallUnsubscribe ==
  \E r \in 1..Len(unsubscribers) :
    /\ updateCallbacks' = unsubscribe(Subscription, unsubscribers[r].callback).callbacks
    /\ listeners' = unsubscribe(Subscription, unsubscribers[r].callback).listeners
    /\ unsubscribers' =
         [unsubscribers EXCEPT ![r].calls = IF @ < 2 THEN @ + 1 ELSE @]
    /\ op' = Op("unsubscribe", r,
                Return(unsubscribe(Subscription, unsubscribers[r].callback), UNDEF),
                AbsentRaw)
    /\ burst' = Settled
    /\ UNCHANGED <<options, now, storage, timers, timeoutId, lastArgs, isThrottled,
                   written>>

\* Number of throttle windows the clock of SpecThrottle runs through.
MaxWindows == 2

\* The delay passes: the clock moves on by one throttle window, when no
\* timer is due.
Elapse ==
  /\ now + DelayMs <= MaxWindows * DelayMs
  /\ \A tm \in timers : tm.due > now
  /\ now' = now + DelayMs
  /\ op' = Op("tick", UNDEF, NoResult, AbsentRaw)
  /\ burst' = Settled
  /\ UNCHANGED <<options, storage, updateCallbacks, timers, timeoutId, lastArgs,
                 isThrottled, listeners, written, unsubscribers>>

\* What a storage event carries: event.key (our key, another key, or null
\* after storage.clear()) and event.newValue (null, here AbsentRaw, or text).
EventKeys == {key, "other", NULL}

EventValues == {AbsentRaw} \cup ForeignRaws

\* event.newValue of the events for another key: a removal, text that is not
\* JSON, a record.
OtherKeyValues == {AbsentRaw, GarbageRaw, ForeignRecord("a", CurVersion, NoNum)}

\* The text under the store's key once the other tab has made the change the
\* event reports: event.newValue for the store's key, nothing after
\* storage.clear() (event.key null), untouched for another key.
OtherTabWrote(eventKey, newValue) ==
  CASE eventKey = key -> newValue
    [] eventKey = NULL -> AbsentRaw
    [] OTHER -> storage

\* Another tab changes the shared storage and the window dispatches the
\* storage event to the listener, when it is attached.  op.pre holds
\* event.newValue; after storage.clear() it is null.
StorageEvent ==
  \E eventKey \in EventKeys, newValue \in EventValues :
    /\ listeners > 0
    /\ eventKey = NULL => newValue = AbsentRaw
    /\ eventKey = "other" => newValue \in OtherKeyValues
    /\ storage' =
         handleStorageEvent([Machine EXCEPT !.storage = OtherTabWrote(eventKey, newValue)],
                            eventKey, newValue).m.storage
    /\ op' = Op("storage", eventKey,
                handleStorageEvent([Machine EXCEPT
                                      !.storage = OtherTabWrote(eventKey, newValue)],
                                   eventKey, newValue),
                newValue)
    /\ written' = IF eventKey = "other" THEN written ELSE Written("foreign", UNDEF, 0)
    /\ burst' = Settled
    /\ UNCHANGED <<options, now, updateCallbacks, timers, timeoutId, lastArgs,
                   isThrottled, listeners, unsubscribers>>

\* event.newValue of the events of the other storage area: a removal, a
\* record, a record the schema rejects.
OtherAreaValues ==
  {AbsentRaw, ForeignRecord("a", CurVersion, NoNum), ForeignRecord("x", CurVersion, NoNum)}

\* Another document changes the same key in the storage area the store does
\* not use (localStorage for a 'session' store, sessionStorage for a 'local'
\* store): event.storageArea is not the Storage getStorage returned, the
\* store's own storage is untouched, and the window dispatches the event to
\* the same listener.  op.pre holds event.newValue.
OtherAreaEvent ==
  \E newValue \in OtherAreaValues :
    /\ listeners > 0
    /\ storage' = handleStorageEvent(Machine, key, newValue).m.storage
    /\ op' = Op("otherArea", key, handleStorageEvent(Machine, key, newValue), newValue)
    /\ written' = IF storage' = storage THEN written ELSE Written("foreign", UNDEF, 0)
    /\ burst' = Settled
    /\ UNCHANGED <<options, now, updateCallbacks, timers, timeoutId, lastArgs,
                   isThrottled, listeners, unsubscribers>>

\* The utilities and the serializer take no store: one bare configuration.
BareOptions ==
  {o \in StoreOptions : /\ o.rate = "none"
                        /\ o.schema = "safe"
                        /\ o.version = NoNum
                        /\ ~o.migrate
                        /\ o.ttl = 0
                        /\ o.defaultValue = UNDEF
                        /\ o.onValidationError = "none"}

\* The state in which a function that takes no store is about to be applied
\* to one of the inputs, at time dateNow.
InitInputAt(inputs, dateNow) ==
  /\ options \in BareOptions
  /\ now = dateNow
  /\ storage = AbsentRaw
  /\ updateCallbacks = <<>>
  /\ timers = {}
  /\ timeoutId = NoNum
  /\ lastArgs = UNDEF
  /\ isThrottled = FALSE
  /\ listeners = 0
  /\ op \in {Op("input", x, NoResult, AbsentRaw) : x \in inputs}
  /\ written = Written("none", UNDEF, 0)
  /\ burst = NoBurst
  /\ unsubscribers = <<>>

InitInput(inputs) == InitInputAt(inputs, 0)

\* deserialize(serialize(data)); op.pre holds the text in between.
RoundTrip ==
    /\ op.name = "input"
    /\ op' = Op("roundTrip", op.arg, deserializeText(serializeData(op.arg)),
                serializeData(op.arg))
    /\ UNCHANGED <<options, now, storage, updateCallbacks, timers, timeoutId,
                   lastArgs, isThrottled, listeners, written, burst,
                   unsubscribers>>

\* cleanupStorage(options) over the storage of the input, at time now.
CleanupStorage ==
    /\ op.name = "input"
    /\ op' = Op("cleanupStorage", op.arg,
                cleanupStorage(op.arg.storage, op.arg.options, now), AbsentRaw)
    /\ UNCHANGED <<options, now, storage, updateCallbacks, timers, timeoutId,
                   lastArgs, isThrottled, listeners, written, burst,
                   unsubscribers>>

\* batchTransaction(operations) over the storage of the input.
BatchTransaction ==
    /\ op.name = "input"
    /\ op' = Op("batchTransaction", op.arg,
                batchTransaction(op.arg.storage, op.arg.operations), AbsentRaw)
    /\ UNCHANGED <<options, now, storage, updateCallbacks, timers, timeoutId,
                   lastArgs, isThrottled, listeners, written, burst,
                   unsubscribers>>

\* One operation of the store applyMiddleware returns.
ApplyMiddleware ==
    /\ op.name = "input"
    /\ op' = Op("applyMiddleware", op.arg,
                applyMiddleware(op.arg.action, op.arg.middlewares, op.arg.finalThrows),
                AbsentRaw)
    /\ UNCHANGED <<options, now, storage, updateCallbacks, timers, timeoutId,
                   lastArgs, isThrottled, listeners, written, burst,
                   unsubscribers>>

(* --------------------------- specifications --------------------------- *)

\* The store without a rate limiter: set is _setInternal.
PlainOptions == {o \in StoreOptions : o.rate = "none"}

Init == InitWith(PlainOptions)

Next ==
  \/ Get
  \/ Set
  \/ Remove
  \/ Tick
  \/ ForeignWrite
  \/ OnUpdate
  \/ Unsubscribe

Spec == Init /\ [][Next]_vars

\* The debounced and the throttled store, with a Zod-style schema, an
\* error callback that returns, no default value and no TTL.
RateOptions ==
  {o \in StoreOptions : /\ o.rate # "none"
                        /\ o.schema = "safe"
                        /\ o.onValidationError = "returns"
                        /\ o.defaultValue = UNDEF
                        /\ o.ttl = 0}

InitRate == InitWith(RateOptions)

NextRate ==
  \/ Get
  \/ Set
  \/ Remove
  \/ TimerFire
  \/ Tick
  \/ ForeignWrite
  \/ OnUpdate
  \/ Unsubscribe

SpecRate == InitRate /\ [][NextRate]_vars

\* The other methods of the store without a rate limiter: update, has and
\* getRaw, over what update and other writers leave under the key.
NextMethods ==
  \/ Update
  \/ Has
  \/ GetRaw
  \/ Tick
  \/ ForeignWrite

SpecMethods == Init /\ [][NextMethods]_vars

\* Cross-tab synchronisation: the subscribers of a store and the storage
\* events of other tabs.  The event handler reads neither the storage nor
\* the default value nor the TTL nor the rate limiter.
SyncOptions == {o \in PlainOptions : o.defaultValue = UNDEF /\ o.ttl = 0}

InitSync == InitWith(SyncOptions)

NextSync ==
  \/ Tick
  \/ OnUpdate
  \/ Unsubscribe
  \/ StorageEvent
  \/ OtherAreaEvent

SpecSync == InitSync /\ [][NextSync]_vars

\* Subscribers that throw: set and remove on a store whose subscribers
\* include a callback that throws.
NotifyOptions ==
  {o \in SyncOptions : o.onValidationError = "none" /\ ~o.migrate}

InitNotify == InitWith(NotifyOptions)

NextNotify ==
  \/ Set
  \/ Remove
  \/ OnUpdate
  \/ OnUpdateThrowing

SpecNotify == InitNotify /\ [][NextNotify]_vars

\* The unsubscribe functions of a store: the caller subscribes, keeps the
\* functions onUpdate returns, and calls them in any order, any number of
\* times, while the store is written and removed.
InitUnsubscribe == InitWith(NotifyOptions)

NextUnsubscribe ==
  \/ OnUpdateReturns
  \/ CallUnsubscribe
  \/ Remove

SpecUnsubscribe == InitUnsubscribe /\ [][NextUnsubscribe]_vars

\* The throttled store over several windows: set calls at the window
\* boundaries and the timers of the wrapper, on a backend that may reject a
\* write.  No version is configured, so that get() never rewrites.
ThrottleOptions ==
  {o \in RateOptions : o.rate = "throttle" /\ o.version = NoNum /\ ~o.migrate}

InitThrottle == InitWith(ThrottleOptions)

NextThrottle ==
  \/ Set
  \/ TimerFire
  \/ Elapse

SpecThrottle == InitThrottle /\ [][NextThrottle]_vars

\* The default serializer over the value trees.
InitSerializer == InitInput(SerializerValues)

NextSerializer == RoundTrip

SpecSerializer == InitSerializer /\ [][NextSerializer]_vars

\* cleanupStorage over every storage content, at every time.
InitCleanup == \E dateNow \in 0..MaxTime : InitInputAt(CleanupInputs(dateNow), dateNow)

NextCleanup == CleanupStorage

SpecCleanup == InitCleanup /\ [][NextCleanup]_vars

\* batchTransaction over every operation list and every storage content.
InitBatch == InitInput(BatchInputs)

NextBatch == BatchTransaction

SpecBatch == InitBatch /\ [][NextBatch]_vars

\* One operation through a middleware chain, over every chain.
InitMiddleware == InitInput(MiddlewareInputs)

NextMiddleware == ApplyMiddleware

SpecMiddleware == InitMiddleware /\ [][NextMiddleware]_vars

(* ----------------------------- properties ----------------------------- *)

\* The calls of one kind the last operation made, in order.
Calls(e) == SelectSeq(op.log, LAMBDA ev : ev.e = e)

\* The last operation was a get() that found a deserializable record.
GetOfRecord == op.name = "get" /\ op.pre.t = "obj"

\* The record get() deserialized.
PreData == deserialize(op.pre).ret

\* That record was expired when get() ran.
PreExpired == PreData.expiresAt > 0 /\ now > PreData.expiresAt

\* The migration policy applies to that record: version and migration
\* function configured, stored version absent or older.
PreNeedsMigration ==
  /\ options.version # NoNum
  /\ options.migrate
  /\ PreData.version < options.version

\* C1: in a store without debounce, throttle or TTL whose key no other
\* writer touched, get() returns the argument of the most recent successful
\* set that no remove followed, and otherwise the default value or null.
C1_GetReturnsLastSet ==
  (op.name = "get" /\ options.ttl = 0 /\ written.kind # "foreign")
    => /\ ~op.threw
       /\ op.ret = IF written.kind = "set" THEN written.value
                                           ELSE DefaultOrNull(options)

C1_Witness ==
  /\ op.name = "get"
  /\ options.ttl = 0
  /\ written.kind = "set"
  /\ options.defaultValue = "b"
  /\ op.ret = "a"

\* C2: set(data) with data the validator rejects throws, calls the error
\* callback with the store's key, leaves the stored text as it was and
\* calls no subscriber.
C2_InvalidSetRejected ==
  (op.name = "set" /\ op.arg \notin Accepts(options.schema))
    => /\ op.threw
       /\ storage = op.pre
       /\ Calls("callback") = <<>>
       /\ Calls("setItem") = <<>>
       /\ options.onValidationError # "none"
            => /\ Calls("onValidationError") # <<>>
               /\ \A i \in 1..Len(Calls("onValidationError")) :
                    Calls("onValidationError")[i].k = key

C2_Witness ==
  /\ op.name = "set"
  /\ op.arg = "x"
  /\ op.threw
  /\ op.pre.t = "obj"
  /\ storage = op.pre
  /\ updateCallbacks # <<>>
  /\ Calls("onValidationError") # <<>>

\* C3: get() never throws, whatever the stored text, the configuration and
\* the caller-supplied functions do (an error callback that throws
\* included); it returns a validated value or the default / null.
C3_GetNeverThrows ==
  op.name = "get"
    => /\ ~op.threw
       /\ op.ret \in Accepts(options.schema) \cup {DefaultOrNull(options)}

\* C4: when the stored text is not valid JSON, get() returns the default
\* (or null) and the key is absent from storage afterwards.
C4_CorruptTextPurged ==
  (op.name = "get" /\ op.pre.t = "garbage")
    => /\ ~op.threw
       /\ op.ret = DefaultOrNull(options)
       /\ storage.t = "absent"

\* What the migration policy hands on for the record get() found: the
\* migration function's result when the policy applies, else the value.
PreCandidate ==
  IF PreNeedsMigration
    THEN migrate(PreData.value)
    ELSE [threw |-> FALSE, ret |-> PreData.value, err |-> UNDEF]

\* C5: when the record deserializes and is not expired but its (possibly
\* migrated) value fails the validator, get() deletes the key, calls the
\* error callback with the failure and the key, and returns the default.
C5_InvalidRecordPurged ==
  (/\ GetOfRecord
   /\ ~PreExpired
   /\ ~PreCandidate.threw
   /\ PreCandidate.ret \notin Accepts(options.schema))
    => /\ ~op.threw
       /\ op.ret = DefaultOrNull(options)
       /\ storage.t = "absent"
       /\ options.onValidationError # "none"
            => \E i \in 1..Len(op.log) :
                 op.log[i] = Event("onValidationError", "ValidationError", key, 0)

\* C6: with a TTL, a record set wrote at time T is returned by every get()
\* up to and including T + ttl; a get() after T + ttl returns the default
\* and leaves the key absent.  A record without expiresAt never expires:
\* get() deletes it only after handing its value to the validator.
C6_TtlExpiry ==
  /\ (op.name = "get" /\ written.kind = "set" /\ options.ttl # 0)
       => /\ ~op.threw
          /\ IF now <= written.at + options.ttl
               THEN op.ret = written.value /\ storage = op.pre
               ELSE op.ret = DefaultOrNull(options) /\ storage.t = "absent"
  /\ (GetOfRecord /\ PreData.expiresAt = NoNum /\ Calls("removeItem") # <<>>)
       => op.log[1].e # "removeItem"

C6_Witness ==
  /\ GetOfRecord
  /\ written.kind = "set"
  /\ options.ttl # 0
  /\ now > written.at + options.ttl
  /\ op.ret = DefaultOrNull(options)
  /\ storage.t = "absent"

\* C7: get() applies expiration, then migration, then validation: for an
\* expired record it calls neither the migration function nor the
\* validator; for a record of an older version the validator is called only
\* after the migration function, and only with that function's result.
C7_PolicyOrder ==
  GetOfRecord
    => /\ PreExpired => Calls("migrate") = <<>> /\ Calls("schema") = <<>>
       /\ (~PreExpired /\ PreNeedsMigration)
            => \A i \in 1..Len(op.log) :
                 op.log[i].e = "schema"
                   => /\ \E j \in 1..(i - 1) : op.log[j].e = "migrate"
                      /\ ~migrate(PreData.value).threw
                      /\ op.log[i].a = migrate(PreData.value).ret

C7_Witness ==
  /\ GetOfRecord
  /\ ~PreExpired
  /\ PreNeedsMigration
  /\ PreData.value = "a"
  /\ Calls("schema") # <<>>
  /\ op.ret = "b"

\* C8 as stated: when the stored record has no version field, or its
\* version equals the configured one, get() does not call the migration
\* function and hands the stored value to the validator as it is.
C8_NoVersionOrSameVersion ==
  (GetOfRecord /\ (PreData.version = NoNum \/ PreData.version = options.version))
    => /\ Calls("migrate") = <<>>
       /\ \A i \in 1..Len(Calls("schema")) : Calls("schema")[i].a = PreData.value

\* C8 as amended: when the stored version equals the configured one, or no
\* version or no migration function is configured, get() does not call
\* the migration function and hands the stored value to the validator as it
\* is; an unexpired record without a version field, under a configured
\* version and migration function, is migrated.
C8_SameVersionNotMigrated ==
  /\ (GetOfRecord /\ (\/ PreData.version = options.version
                      \/ options.version = NoNum
                      \/ ~options.migrate))
       => /\ Calls("migrate") = <<>>
          /\ \A i \in 1..Len(Calls("schema")) : Calls("schema")[i].a = PreData.value
  /\ (GetOfRecord /\ ~PreExpired /\ PreNeedsMigration /\ PreData.version = NoNum)
       => Calls("migrate") # <<>>

C8_Witness ==
  /\ GetOfRecord
  /\ options.migrate
  /\ PreData.version = options.version
  /\ ~PreExpired
  /\ Calls("schema") # <<>>
  /\ op.ret = "a"

\* C9 as stated: with a version and a migration function configured and
\* the stored version absent or older, each get() calls the migration
\* function exactly once.
C9_MigratesOncePerGet ==
  (GetOfRecord /\ PreNeedsMigration) => Len(Calls("migrate")) = 1

\* C9 as amended: ... each get() that finds the record unexpired calls the
\* migration function exactly once (an expired record is deleted without
\* being migrated).
C9_MigratesOncePerGetUnexpired ==
  /\ (GetOfRecord /\ PreNeedsMigration /\ ~PreExpired)
       => /\ Len(Calls("migrate")) = 1
          /\ Calls("migrate")[1].a = PreData.value
  /\ (GetOfRecord /\ PreNeedsMigration /\ PreExpired) => Calls("migrate") = <<>>

C9_Witness ==
  /\ GetOfRecord
  /\ PreNeedsMigration
  /\ ~PreExpired
  /\ PreData.version = NoNum
  /\ Len(Calls("migrate")) = 1

\* C10: when get() migrates an older record and the migrated value is
\* valid, get() returns the migrated value and, when it returns, the stored
\* record holds that value stamped with the configured version (here for
\* a backend that accepts the write).
C10_MigrationRewritten ==
  (/\ GetOfRecord
   /\ ~PreExpired
   /\ PreNeedsMigration
   /\ ~PreCandidate.threw
   /\ PreCandidate.ret \in Accepts(options.schema) \ {NULL}
   /\ \A i \in 1..Len(op.log) : op.log[i].a # "QuotaExceededError")
    => /\ ~op.threw
       /\ op.ret = PreCandidate.ret
       /\ storage.t = "obj"
       /\ deserialize(storage).ret.value = PreCandidate.ret
       /\ deserialize(storage).ret.version = options.version

\* C11: get() writes to storage only when it called the migration function
\* and that function succeeded; a valid, unexpired record stamped with a
\* version greater than the configured one is returned as it is and the
\* stored text, version stamp included, stays as it was.
C11_RewriteOnlyAfterMigration ==
  GetOfRecord
    => /\ Writes(op.log) # <<>>
            => /\ Calls("migrate") # <<>>
               /\ ~migrate(PreData.value).threw
       /\ (/\ options.version # NoNum
           /\ PreData.version > options.version
           /\ ~PreExpired
           /\ PreData.value \in Accepts(options.schema) \ {NULL})
            => /\ ~op.threw
               /\ op.ret = PreData.value
               /\ storage = op.pre

\* C12: a get() called right after a get(), with no other operation and no
\* clock tick between them, returns what the first returned, calls the
\* migration function not at all and writes nothing (here for a backend
\* that rejects no write of either call).
C12_GetIdempotent ==
  (/\ op.name = "get"
   /\ \A i \in 1..Len(op.log) : op.log[i].a # "QuotaExceededError")
    => /\ get(Machine, FALSE).threw = op.threw
       /\ get(Machine, FALSE).ret = op.ret
       /\ \A i \in 1..Len(get(Machine, FALSE).m.log) :
            get(Machine, FALSE).m.log[i].e \notin {"migrate", "setItem"}

\* C13: when the migration function throws in get(), the error callback is
\* called with that error and the key, get() returns the default (or null),
\* the stored text stays as it was and the migration function is called
\* once.
C13_MigrationFailure ==
  (/\ GetOfRecord
   /\ ~PreExpired
   /\ PreNeedsMigration
   /\ migrate(PreData.value).threw)
    => /\ ~op.threw
       /\ op.ret = DefaultOrNull(options)
       /\ storage = op.pre
       /\ Len(Calls("migrate")) = 1
       /\ options.onValidationError # "none"
            => \E i \in 1..Len(op.log) :
                 op.log[i] = Event("onValidationError", "MigrationError", key, 0)

\* The calls notifyCallbacks(value) makes when every subscriber is called
\* once, in the order of subscription.
Notified(value) ==
  [i \in 1..Len(updateCallbacks) |-> Event("callback", value, "", updateCallbacks[i])]

C16_EventKeyAndRemoval ==
  op.name = "storage"
    => /\ op.arg # key => Calls("callback") = <<>>
       /\ (op.arg = key /\ op.pre.t = "absent") => Calls("callback") = Notified(NULL)

C16_Witness ==
  /\ op.name = "storage"
  /\ op.arg = key
  /\ op.pre.t = "absent"
  /\ Calls("callback") # <<>>

\* Every stage of the pipeline succeeds for the text a storage event
\* carries: it deserializes to a record, the record is not expired, the
\* migration policy yields a value and the validator accepts it.
EventStagesSucceed ==
  /\ op.pre.t = "obj"
  /\ ~PreExpired
  /\ ~PreCandidate.threw
  /\ PreCandidate.ret \in Accepts(options.schema) \ {NULL}

\* C17: on a storage event for the store's key with a newValue that is not
\* null the handler does not throw, and it calls the subscribers, with the
\* migrated and validated value, exactly when every stage succeeds; when a
\* stage fails or the record is expired it calls no subscriber.
C17_EventNotifiesIffValid ==
  (op.name = "storage" /\ op.arg = key /\ op.pre.t # "absent")
    => /\ ~op.threw
       /\ IF EventStagesSucceed
            THEN Calls("callback") = Notified(PreCandidate.ret)
            ELSE Calls("callback") = <<>>

\* The last operation ran into no QuotaExceededError of the backend.
NoQuotaError == \A i \in 1..Len(op.log) : op.log[i].a # "QuotaExceededError"

\* C18: with debounce, nothing is written to storage except when the timer
\* fires; the timer that ends a burst of set calls fires no earlier than
\* the delay after the last call of the burst, and then exactly one write
\* occurs, carrying the argument of that last call (here for a backend
\* that accepts the write).
C18_DebounceLastCallWins ==
  options.rate = "debounce"
    => /\ op.name # "timer" => Writes(op.log) = <<>>
       /\ (op.name = "timer" /\ burst.state = "fired" /\ NoQuotaError)
            => /\ now >= burst.at + DelayMs
               /\ Len(Writes(op.log)) = 1
               /\ Writes(op.log)[1].a = burst.arg

\* C19: with throttle, a set call that finds no window open is written at
\* once (or throws to its caller); when the window's timer fires, the set
\* calls made in the window after the first are written as one trailing
\* write carrying the argument of the latest of them, and there is no
\* trailing write when no such call was made (here for a backend that
\* accepts the trailing write).
C19_ThrottleTrailingWrite ==
  options.rate = "throttle"
    => /\ (op.name = "set" /\ burst.first)
            => \/ op.threw
               \/ /\ Len(Writes(op.log)) = 1
                  /\ Writes(op.log)[1].a = op.arg
       /\ (op.name = "timer" /\ NoQuotaError)
            => IF burst.state = "fired" /\ ~burst.first
                 THEN /\ Len(Writes(op.log)) = 1
                      /\ Writes(op.log)[1].a = burst.arg
                 ELSE Writes(op.log) = <<>>

\* C20: in every configuration, debounce and throttle included, when
\* set(x) with valid x has returned, the subscribers have been called with
\* x and a get() called next returns x.
C20_GetAfterSetObserves ==
  (op.name = "set" /\ ~op.threw /\ op.arg \in Accepts(options.schema) \ {NULL})
    => /\ Calls("callback") = Notified(op.arg)
       /\ ~get(Machine, FALSE).threw
       /\ get(Machine, FALSE).ret = op.arg

\* The machine as it was before the last operation of a store without
\* rate limiter: the stored text was op.pre.
PreMachine == [Machine EXCEPT !.storage = op.pre]

\* C21: update(fn) does what set(fn(get())) does: fn is called once, with
\* what get() returns at that moment, update ends as set(fn(get())) ends
\* and leaves the stored text that leaves; after an update that wrote v,
\* the next update hands v to fn.
C21_UpdateIsSetOfGet ==
  op.name = "update"
    => /\ \E full \in BOOLEAN :
            /\ ~get(PreMachine, full).threw
                 => /\ Len(Calls("updater")) = 1
                    /\ Calls("updater")[1].a = get(PreMachine, full).ret
                    /\ op.threw = set(get(PreMachine, full).m,
                                      applyUpdater(op.arg, get(PreMachine, full).ret),
                                      full).threw
                    /\ storage = set(get(PreMachine, full).m,
                                     applyUpdater(op.arg, get(PreMachine, full).ret),
                                     full).m.storage
            /\ get(PreMachine, full).threw
                 => /\ op.threw
                    /\ Calls("updater") = <<>>
                    /\ storage = get(PreMachine, full).m.storage
       /\ (~op.threw /\ Writes(op.log) # <<>>)
            => \A fn \in Updaters :
                 /\ Len(SelectSeq(update(Machine, fn, FALSE).m.log,
                                  LAMBDA ev : ev.e = "updater")) = 1
                 /\ \E i \in 1..Len(update(Machine, fn, FALSE).m.log) :
                      update(Machine, fn, FALSE).m.log[i] =
                        Event("updater", Writes(op.log)[Len(Writes(op.log))].a, fn, 0)

C21_Witness ==
  /\ op.name = "update"
  /\ op.arg = "next"
  /\ ~op.threw
  /\ op.pre.t = "obj"
  /\ Calls("updater") = <<Event("updater", "a", "next", 0)>>
  /\ deserialize(storage).ret.value = "b"

\* Valid data is stored: the text the operation found is a record that is
\* not expired and whose value, migrated where the policy applies, the
\* validator accepts.
ValidDataStored ==
  /\ op.pre.t = "obj"
  /\ ~PreExpired
  /\ ~PreCandidate.threw
  /\ PreCandidate.ret \in Accepts(options.schema) \ {NULL}

C23_GetRawBypasses ==
  op.name = "getRaw"
    => /\ ~op.threw
       /\ op.log = <<>>
       /\ storage = op.pre
       /\ IF op.pre.t = "obj"
            THEN /\ op.ret.t = "obj"
                 /\ op.ret.value =
                      IF op.pre.value \in {UndefTagS, MissingS} THEN UNDEF ELSE op.pre.value
                 /\ op.ret.version = (IF op.pre.version = UndefTag THEN NoNum ELSE op.pre.version)
                 /\ op.ret.timestamp = op.pre.timestamp
                 /\ op.ret.expiresAt =
                      (IF op.pre.expiresAt = UndefTag THEN NoNum ELSE op.pre.expiresAt)
            ELSE op.ret.t = "null"

C23_Witness ==
  /\ op.name = "getRaw"
  /\ op.pre.t = "obj"
  /\ PreExpired
  /\ PreNeedsMigration
  /\ op.ret.value = "x"
  /\ storage = op.pre

\* C26: when set(data) passes validation and the write to storage fails,
\* the error is reported through the configured error callback and thrown
\* to the caller, the stored text stays as it was and no subscriber is
\* called.
C26_WriteFailureReported ==
  (op.name = "set" /\ ~NoQuotaError)
    => /\ op.threw
       /\ op.err = "QuotaExceededError"
       /\ storage = op.pre
       /\ Calls("callback") = <<>>
       /\ options.onValidationError # "none"
            => \E i \in 1..Len(op.log) :
                 op.log[i] = Event("onValidationError", "QuotaExceededError", key, 0)

\* C29: with debounce or throttle at most one timer of the wrapper is
\* pending in every state.
C29_OnePendingTimer == Cardinality(timers) <= 1

\* A set call made while a timer was pending: the debounce timer was
\* replaced by a later one, the throttle timer absorbed the call.
C29_Witness ==
  /\ op.name = "set"
  /\ burst.state = "open"
  /\ ~burst.first
  /\ Cardinality(timers) = 1
  /\ \/ options.rate = "throttle" /\ lastArgs = op.arg
     \/ options.rate = "debounce" /\ \A tm \in timers : tm.due = now + DelayMs

\* C30: the handler of storage events never modifies storage: whatever the
\* event carries (another key, a removal, text that does not deserialize,
\* an expired record, a record of an old version, an invalid value), the
\* handler calls neither setItem nor removeItem and the text under the key
\* is after the handler what the other tab left.
C30_HandlerLeavesStorage ==
  [][op'.name = "storage"
       => /\ \A i \in 1..Len(op'.log) : op'.log[i].e \notin {"setItem", "removeItem"}
          /\ storage' = OtherTabWrote(op'.arg, op'.pre)]_vars

\* The handler has seen an expired, invalid record of an old version under
\* the store's key, and the record is still stored.
C30_Witness ==
  /\ op.name = "storage"
  /\ op.arg = key
  /\ op.pre.t = "obj"
  /\ PreExpired
  /\ PreNeedsMigration
  /\ op.pre.value = "x"
  /\ storage = op.pre

RECURSIVE normalize(_)

\* A value as deep equality sees it: a property that holds undefined is as
\* good as absent, a hole in an array as good as undefined.
normalize(value) ==
  CASE value.t = "object" ->
         Obj(SelectSeq([i \in 1..Len(value.v) |->
                          P(value.v[i].key, normalize(value.v[i].val))],
                       LAMBDA p : p.val.t # "undefined"))
    [] value.t \in {"array", "Set"} ->
         [t |-> value.t,
          v |-> [i \in 1..Len(value.v) |->
                   IF value.v[i].t = "hole" THEN Undefined ELSE normalize(value.v[i])]]
    [] value.t = "Map" ->
         MapOf([i \in 1..Len(value.v) |->
                  <<normalize(value.v[i][1]), normalize(value.v[i][2])>>])
    [] OTHER -> value

deepEqual(a, b) == normalize(a) = normalize(b)

RECURSIVE HoldsUndefined(_)

\* undefined occurs somewhere in the value.
HoldsUndefined(value) ==
  CASE value.t = "undefined" -> TRUE
    [] value.t = "object" -> \E i \in 1..Len(value.v) : HoldsUndefined(value.v[i].val)
    [] value.t \in {"array", "Set"} -> \E i \in 1..Len(value.v) : HoldsUndefined(value.v[i])
    [] value.t = "Map" ->
         \E i \in 1..Len(value.v) :
           HoldsUndefined(value.v[i][1]) \/ HoldsUndefined(value.v[i][2])
    [] OTHER -> FALSE

\* C24: for every value built from JSON primitives, plain objects, arrays,
\* Date, Map and Set, nested or at top level, deserialize(serialize(v))
\* returns a value deep-equal to v.
C24_RoundTrip ==
  (op.name = "roundTrip" /\ ~HoldsUndefined(op.arg))
    => /\ ~op.threw
       /\ deepEqual(op.ret, op.arg)

\* C25: undefined comes back as undefined from deserialize(serialize(v)),
\* as the value of an object property, as an array element and as the
\* top-level value.
C25_UndefinedRoundTrip ==
  /\ (op.name = "roundTrip" /\ op.arg = Obj(<<P("a", Undefined)>>))
       => ~op.threw /\ GetProp(op.ret, "a") = Undefined
  /\ (op.name = "roundTrip" /\ op.arg = Arr(<<Undefined>>))
       => ~op.threw /\ Len(op.ret.v) = 1 /\ elementAt(op.ret, 1) = Undefined
  /\ (op.name = "roundTrip" /\ op.arg = Undefined)
       => ~op.threw /\ op.ret = Undefined

\* C28: cleanupStorage({maxAge}) removes, among the keys that match the
\* prefix, exactly the records whose write timestamp lies more than maxAge
\* before now, and keeps the younger ones, whether the record is a bare
\* {value, timestamp} or was written by the store's set().
C28_CleanupByAge ==
  (op.name = "cleanupStorage" /\ op.arg.options.maxAge > 0 /\ ~op.arg.options.dryRun)
    => \A k \in DOMAIN op.arg.storage :
         (op.arg.storage[k].t = "obj" /\ op.arg.storage[k].timestamp >= 0)
           => IF /\ op.arg.options.prefix # UNDEF => startsWith(k, op.arg.options.prefix)
                 /\ now - op.arg.storage[k].timestamp > op.arg.options.maxAge
                THEN op.ret.storage[k] = AbsentRaw
                ELSE op.ret.storage[k] = op.arg.storage[k]

\* An operation of the list fails: executed in list order, one of the calls
\* is rejected by the backend.
BatchFails == executeFrom(Ran(op.arg.storage, FALSE), op.arg.operations, 1).threw

\* What key k holds once every operation has been applied in list order: the
\* effect of the last operation that names it.
LastOperationOn(k) ==
  CHOOSE i \in 1..Len(op.arg.operations) :
    /\ op.arg.operations[i].key = k
    /\ \A j \in (i + 1)..Len(op.arg.operations) : op.arg.operations[j].key # k

AppliedInOrder(k) ==
  IF \A i \in 1..Len(op.arg.operations) : op.arg.operations[i].key # k
    THEN op.arg.storage[k]
    ELSE op.arg.operations[LastOperationOn(k)].value

\* Every set operation of the list carries a value.
SetsHaveValues ==
  \A i \in 1..Len(op.arg.operations) :
    op.arg.operations[i].type = "set" => op.arg.operations[i].value # NoNum

\* C27: batchTransaction is all-or-nothing: when an operation of the list
\* fails, it returns {success: false} and every key the list names holds
\* what it held before the call; when all succeed, it returns
\* {success: true} and the operations have been applied in list order.
C27_BatchAllOrNothing ==
  op.name = "batchTransaction"
    => IF BatchFails
         THEN /\ ~op.threw
              /\ ~op.ret.success
              /\ \A i \in 1..Len(op.arg.operations) :
                   op.ret.storage[op.arg.operations[i].key] =
                     op.arg.storage[op.arg.operations[i].key]
         ELSE /\ ~op.threw
              /\ op.ret.success
              /\ SetsHaveValues => \A k \in BatchKeys : op.ret.storage[k] = AppliedInOrder(k)

\* C31: when another tab clears the whole storage (a storage event with key
\* null and newValue null), every subscriber is called once with null.
C31_ClearNotifiesNull ==
  (op.name = "storage" /\ op.arg = NULL /\ op.pre.t = "absent")
    => Calls("callback") = Notified(NULL)

\* C36: get(), has() and getRaw() return without a subscriber having been
\* called, whatever is stored and configured.
C36_ReadsNotifyNobody ==
  op.name \in {"get", "has", "getRaw"} => Calls("callback") = <<>>

\* C37: get() leaves the expiration instant of the stored record as the
\* write that created it set it: a record that is still stored after get()
\* has the expiresAt it had before.
C37_ExpiryFixedByWrite ==
  (GetOfRecord /\ storage.t = "obj")
    => deserialize(storage).ret.expiresAt = PreData.expiresAt

\* C33: once remove() has returned, the key stays absent until the caller
\* calls set or update (or another writer writes): the step that follows
\* remove(), the callback of a timer that was pending when remove() was
\* called included, puts no record under the key.
C33_RemovedStaysAbsent ==
  [][(op.name = "remove" /\ op'.name \notin {"set", "update", "foreign"})
       => storage' = AbsentRaw]_vars

\* C34: with debounce, get() and has() leave a pending write alone: the
\* pending timer keeps its due time and its argument.
C34_ReadsKeepPendingWrite ==
  [][(options.rate = "debounce" /\ timers # {} /\ op'.name \in {"get", "has"})
       => timers' = timers]_vars

\* C39: a store reacts only to changes of its own storage area: an event of
\* the other area for the same key calls no subscriber.
C39_OtherAreaIgnored ==
  op.name = "otherArea" => Calls("callback") = <<>>

\* A subscriber whose callback throws is subscribed.
ThrowerSubscribed ==
  \E i \in 1..Len(updateCallbacks) : updateCallbacks[i] = ThrowingCallback

\* C38: a subscriber callback that throws affects neither the operation nor
\* the other subscribers: a set that wrote and a remove return normally,
\* every subscribed callback has been called exactly once, and the write or
\* the removal stays in place.
C38_ThrowingSubscriberContained ==
  ThrowerSubscribed =>
    /\ (op.name = "set" /\ Writes(op.log) # <<>>)
         => /\ ~op.threw
            /\ Calls("callback") = Notified(op.arg)
            /\ storage.t = "obj"
            /\ deserialize(storage).ret.value = op.arg
    /\ op.name = "remove"
         => /\ ~op.threw
            /\ Calls("callback") = Notified(NULL)
            /\ storage = AbsentRaw

\* set wrote on a store whose first subscriber throws and whose second
\* subscriber does not.
C38_Witness ==
  /\ op.name = "set"
  /\ Writes(op.log) # <<>>
  /\ Len(updateCallbacks) = 2
  /\ updateCallbacks[1] = ThrowingCallback
  /\ Calls("console.error") # <<>>

\* The positions in the last operation's log of the events of one kind.
Positions(e) == {n \in 1..Len(op.log) : op.log[n].e = e}

\* The middlewares run in array order, each at most once; the wrapped
\* operation runs only after every middleware has called next(); a second
\* next() of a middleware is answered with the error at once.
ChainInOrder ==
  /\ \A n1, n2 \in Positions("middleware") :
       n1 < n2 => op.log[n1].cb < op.log[n2].cb
  /\ \A n \in Positions("final") :
       \A j \in 0..(Len(op.arg.middlewares) - 1) :
         \E k \in Positions("next") : k < n /\ op.log[k].cb = j
  /\ \A k1, k2 \in Positions("next") :
       (k1 < k2 /\ op.log[k1].cb = op.log[k2].cb)
         => /\ k2 + 1 \in Positions("error")
            /\ op.threw

\* Every middleware of the chain calls next() when it is run.
EveryoneCallsNext ==
  \A j \in 1..Len(op.arg.middlewares) :
    op.arg.middlewares[j] \in {"next", "twice", "retry"}

Subscribed(callbacks, callback) ==
  \E i \in 1..Len(callbacks) : callbacks[i] = callback

\* C40: an unsubscribe function removes only its own registration: a call of
\* a function that was called before changes nothing, also when its callback
\* has been registered again since, and a first call leaves subscribed the
\* callback of every other registration whose function was not called.
C40_UnsubscribeOwnRegistration ==
  [][\A r \in 1..Len(unsubscribers) :
       (op'.name = "unsubscribe" /\ op'.arg = r /\ unsubscribers' # unsubscribers)
         => /\ unsubscribers[r].calls > 0
                 => updateCallbacks' = updateCallbacks /\ listeners' = listeners
            /\ \A q \in 1..Len(unsubscribers) :
                 (q # r /\ unsubscribers[q].calls = 0
                    /\ Subscribed(updateCallbacks, unsubscribers[q].callback))
                   => Subscribed(updateCallbacks', unsubscribers[q].callback)]_vars

\* C35: with throttle, what a timer of the wrapper writes is the argument of
\* the caller's most recent set call: an argument coalesced in an earlier
\* window is not written after the value of a later call, also after a
\* trailing execution that threw.
C35_ThrottleNoStaleWrite ==
  (options.rate = "throttle" /\ op.name = "timer" /\ Writes(op.log) # <<>>)
    => Writes(op.log)[1].a = burst.arg

====
